---------------------------- MODULE Spec2Model ----------------------------
(***************************************************************************)
(* Model of scripts/dates.py: the natural-language date resolver.          *)
(*                                                                         *)
(* An expression is the sequence of its whitespace-separated tokens, after *)
(* str.strip().  A token is a record [n, s]: n is the token's leading run  *)
(* of digits, '-' and ':' (one code per character, see Dash and Colon) and *)
(* s is the run of letters that follows it.  "monday" is                   *)
(* [n |-> <<>>, s |-> "monday"], "15th" is [n |-> <<1,5>>, s |-> "th"],    *)
(* "2026-03-15" is [n |-> <<2,0,2,6,Dash,0,3,Dash,1,5>>, s |-> ""].        *)
(* A datetime is a record [t, y, m, d, desc]; every datetime resolve works *)
(* with is at midnight (line 73), so only the reference instant carries an *)
(* hour.  t = "raise" stands for an exception leaving the function.        *)
(* A description is the grammar's f-string with its fields left unfilled.  *)
(***************************************************************************)
EXTENDS Integers, Sequences, FiniteSets, TLC

VARIABLES ref, expression, result, pc

vars == <<ref, expression, result, pc>>

-----------------------------------------------------------------------------
(* Bounds of the model *)

\* the reference dates are RefFirst, RefFirst + 1 day, ..., RefFirst + RefSpan days
RefSpan == 75

\* counts N of the counted grammars are 0..MaxCount
MaxCount == 3

\* counts N of the business-day grammar are 0..MaxBusiness
MaxBusiness == 6

\* _add_months is applied to -MaxMonths..MaxMonths
MaxMonths == 14

\* _add_months is applied to the dates of AddFirstYear..AddFirstYear+AddYears
AddYears == 1

-----------------------------------------------------------------------------
(* Characters of a token's leading run that are not digits *)

Dash == 10

Colon == 11

IsDigits(n) == \A i \in 1..Len(n) : n[i] \in 0..9

RECURSIVE IntOf(_)
\* int(): the value of a run of digits
IntOf(n) == IF n = <<>> THEN 0 ELSE 10 * IntOf(SubSeq(n, 1, Len(n) - 1)) + n[Len(n)]

\* the decimal digits of v, zero-padded to w places (the "%0wd" of isoformat)
Digits(v, w) == [i \in 1..w |-> (v \div (10 ^ (w - i))) % 10]

W(s) == [n |-> <<>>, s |-> s]

Num(v) == [n |-> IF v < 10 THEN <<v>> ELSE <<v \div 10, v % 10>>, s |-> ""]

-----------------------------------------------------------------------------
(* The calendar: datetime, timedelta and calendar.monthrange *)

None == [t |-> "none", y |-> 0, m |-> 0, d |-> 0, desc |-> ""]

\* a ValueError or OverflowError raised by datetime and not caught
Raise == [t |-> "raise", y |-> 0, m |-> 0, d |-> 0, desc |-> ""]

IsLeap(y) == y % 4 = 0 /\ (y % 100 # 0 \/ y % 400 = 0)

\* calendar.monthrange(year, month)[1]
DaysInMonth(y, m) ==
    IF m = 2 THEN (IF IsLeap(y) THEN 29 ELSE 28)
    ELSE IF m \in {4, 6, 9, 11} THEN 30 ELSE 31

\* datetime accepts years MINYEAR..MAXYEAR = 1..9999
ValidDate(y, m, d) ==
    /\ y >= 1 /\ y <= 9999
    /\ m >= 1 /\ m <= 12
    /\ d >= 1 /\ d <= DaysInMonth(y, m)

\* datetime(year, month, day), and dt.replace(year=, month=, day=)
MkDate(y, m, d) ==
    IF ValidDate(y, m, d) THEN [t |-> "date", y |-> y, m |-> m, d |-> d, desc |-> ""]
    ELSE Raise

DaysBeforeYear(y) ==
    365 * (y - 1) + ((y - 1) \div 4) - ((y - 1) \div 100) + ((y - 1) \div 400)

DaysBeforeMonth(y, m) ==
    <<0, 31, 59, 90, 120, 151, 181, 212, 243, 273, 304, 334>>[m]
    + (IF m > 2 /\ IsLeap(y) THEN 1 ELSE 0)

\* date.toordinal(): 1 is 0001-01-01
ToOrdinal(dt) == DaysBeforeYear(dt.y) + DaysBeforeMonth(dt.y, dt.m) + dt.d

\* date.fromordinal()
FromOrdinal(o) ==
    LET n0   == o - 1
        n400 == n0 \div 146097
        r400 == n0 % 146097
        n100 == r400 \div 36524
        r100 == r400 % 36524
        n4   == r100 \div 1461
        r4   == r100 % 1461
        n1   == r4 \div 365
        r1   == r4 % 365
        year == n400 * 400 + n100 * 100 + n4 * 4 + n1 + 1
    IN  IF n1 = 4 \/ n100 = 4
        THEN MkDate(year - 1, 12, 31)
        ELSE LET rest  == r1 + 1      \* day of the year, from 1
                 month == CHOOSE m \in 1..12 :
                             /\ DaysBeforeMonth(year, m) < rest
                             /\ rest <= DaysBeforeMonth(year, m) + DaysInMonth(year, m)
             IN  MkDate(year, month, rest - DaysBeforeMonth(year, month))

\* dt + timedelta(days=n); datetime raises OverflowError outside 0001..9999
AddDays(dt, n) ==
    LET o == ToOrdinal(dt) + n
    IN  IF o < 1 \/ o > 3652059 THEN Raise ELSE FromOrdinal(o)

\* dt.weekday(): Monday is 0, Sunday is 6
Weekday(dt) == (ToOrdinal(dt) + 6) % 7

\* strftime("%A")
DayName(wd) ==
    <<"Monday", "Tuesday", "Wednesday", "Thursday", "Friday", "Saturday", "Sunday">>[wd + 1]

-----------------------------------------------------------------------------
(* The name tables *)

WEEKDAYS ==
    ("monday" :> 0) @@ ("tuesday" :> 1) @@ ("wednesday" :> 2) @@ ("thursday" :> 3) @@
    ("friday" :> 4) @@ ("saturday" :> 5) @@ ("sunday" :> 6) @@
    ("mon" :> 0) @@ ("tue" :> 1) @@ ("tues" :> 1) @@ ("wed" :> 2) @@ ("thu" :> 3) @@
    ("thur" :> 3) @@ ("thurs" :> 3) @@ ("fri" :> 4) @@ ("sat" :> 5) @@ ("sun" :> 6)

MONTH_NAMES ==
    ("january" :> 1) @@ ("february" :> 2) @@ ("march" :> 3) @@ ("april" :> 4) @@
    ("may" :> 5) @@ ("june" :> 6) @@ ("july" :> 7) @@ ("august" :> 8) @@
    ("september" :> 9) @@ ("october" :> 10) @@ ("november" :> 11) @@ ("december" :> 12) @@
    ("jan" :> 1) @@ ("feb" :> 2) @@ ("mar" :> 3) @@ ("apr" :> 4) @@
    ("jun" :> 6) @@ ("jul" :> 7) @@ ("aug" :> 8) @@ ("sep" :> 9) @@ ("sept" :> 9) @@
    ("oct" :> 10) @@ ("nov" :> 11) @@ ("dec" :> 12)

-----------------------------------------------------------------------------
(* The calendar arithmetic helpers *)

\* a wrong _next_weekday: today counts as the next occurrence (days_ahead < 0)
NextWeekdaySameDay(weekday, dt, weeks_ahead) ==
    LET days_ahead == weekday - Weekday(dt)
    IN  AddDays(dt, (IF days_ahead < 0 THEN days_ahead + 7 ELSE days_ahead) + weeks_ahead * 7)

\* a wrong _next_weekday: weeks_ahead is left out of the sum
NextWeekdayNoWeeks(weekday, dt, weeks_ahead) ==
    LET days_ahead == weekday - Weekday(dt)
    IN  AddDays(dt, IF days_ahead <= 0 THEN days_ahead + 7 ELSE days_ahead)

\* _next_weekday(weekday, ref, weeks_ahead)
NextWeekday(weekday, dt, weeks_ahead) ==
    LET days_ahead == weekday - Weekday(dt)
    IN  AddDays(dt, (IF days_ahead <= 0 THEN days_ahead + 7 ELSE days_ahead) + weeks_ahead * 7)

\* _prev_weekday(weekday, ref, weeks_back)
PrevWeekday(weekday, dt, weeks_back) ==
    LET days_back == Weekday(dt) - weekday
    IN  AddDays(dt, 0 - ((IF days_back <= 0 THEN days_back + 7 ELSE days_back) + weeks_back * 7))

\* a wrong _add_months: the day is kept, not clamped to the target month
AddMonthsNoClamp(dt, months) ==
    LET month0 == dt.m - 1 + months
    IN  MkDate(dt.y + (month0 \div 12), (month0 % 12) + 1, dt.d)

\* _add_months(dt, months); // and % are floor division and its remainder
AddMonths(dt, months) ==
    LET month0 == dt.m - 1 + months
        year   == dt.y + (month0 \div 12)
        month  == (month0 % 12) + 1
        day    == IF dt.d < DaysInMonth(year, month) THEN dt.d ELSE DaysInMonth(year, month)
    IN  MkDate(year, month, day)

-----------------------------------------------------------------------------
(* The normalizer: expression.lower().strip() and the time-of-day suffix *)

\* str.lower() on the letters of the words that are written with capitals
LowerWord(s) ==
    CASE s = "Tomorrow" -> "tomorrow"
      [] s = "Monday"   -> "monday"
      [] s = "Friday"   -> "friday"
      [] s = "March"    -> "march"
      [] s = "EOM"      -> "eom"
      [] s = "AT"       -> "at"
      [] s = "PM"       -> "pm"
      [] OTHER          -> s

Lower(e) == [i \in 1..Len(e) |-> [e[i] EXCEPT !.s = LowerWord(e[i].s)]]

Lit(ws) == [i \in 1..Len(ws) |-> W(ws[i])]

\* \d{1,2}(?::\d{2})? : one or two digits, then perhaps a colon and two digits
IsClock(n) ==
    \/ Len(n) \in 1..2 /\ IsDigits(n)
    \/ /\ Len(n) \in 4..5
       /\ n[Len(n) - 2] = Colon
       /\ IsDigits(SubSeq(n, 1, Len(n) - 3))
       /\ IsDigits(SubSeq(n, Len(n) - 1, Len(n)))

\* the alternatives of time_suffixes after its leading \s+, each up to $
IsTimeClause(c) ==
    \/ /\ Len(c) = 2
       /\ c[1] = W("at")
       /\ IsClock(c[2].n)
       /\ c[2].s \in {"", "am", "pm"}
    \/ /\ Len(c) = 3
       /\ c[1] = W("at")
       /\ IsClock(c[2].n) /\ c[2].s = ""
       /\ c[3] \in {W("am"), W("pm")}
    \/ /\ Len(c) = 3
       /\ c[1] = W("in") /\ c[2] = W("the")
       /\ c[3] \in {W("morning"), W("afternoon"), W("evening")}
    \/ /\ Len(c) = 1
       /\ c[1] \in {W("morning"), W("afternoon"), W("evening"), W("night")}

\* where re.search finds time_suffixes: the number of tokens before the leftmost
\* match, which needs whitespace before it; 0 when there is no match
SuffixAt(e) ==
    LET at == {i \in 1..(Len(e) - 1) : IsTimeClause(SubSeq(e, i + 1, Len(e)))}
    IN  IF at = {} THEN 0 ELSE CHOOSE i \in at : \A j \in at : i <= j

\* bool(re.search(time_suffixes, expr))
HasTimeSuffix(e) == SuffixAt(e) # 0

\* a wrong normalizer: the suffix is detected and left in place
StripTimeSuffixKept(e) == e

\* re.sub(time_suffixes, "", expr).strip()
StripTimeSuffix(e) == IF HasTimeSuffix(e) THEN SubSeq(e, 1, SuffixAt(e)) ELSE e

-----------------------------------------------------------------------------
(* The captures of the grammars' regular expressions *)

\* (\d+): a token that is a run of digits
IsCount(tok) == tok.s = "" /\ tok.n # <<>> /\ IsDigits(tok.n)

\* (\w+) up to whitespace: the token's letters; a token with digits is no name
Word(tok) == IF tok.n = <<>> THEN tok.s ELSE "?"

\* (\w+?)s? up to whitespace or $: the shortest capture, so one final "s" is left
\* out of it
Singular(s) ==
    CASE s = "days"       -> "day"
      [] s = "weeks"      -> "week"
      [] s = "months"     -> "month"
      [] s = "years"      -> "year"
      [] s = "mondays"    -> "monday"
      [] s = "tuesdays"   -> "tuesday"
      [] s = "wednesdays" -> "wednesday"
      [] s = "thursdays"  -> "thursday"
      [] s = "fridays"    -> "friday"
      [] s = "saturdays"  -> "saturday"
      [] s = "sundays"    -> "sunday"
      [] s = "tues"       -> "tue"
      [] s = "thurs"      -> "thur"
      [] s = "fris"       -> "fri"
      [] s = "business"   -> "busines"
      [] s = "workdays"   -> "workday"
      [] OTHER            -> s

Unit(tok) == Singular(Word(tok))

\* (?:now|today) and ago, matched at the start of a token
IsNowOrToday(tok) == Word(tok) \in {"now", "today"}

IsAgo(tok) == Word(tok) = "ago"

\* days? and workdays? matched at the start of a token
IsDays(tok) == Word(tok) \in {"day", "days"}

IsWorkdays(tok) == Word(tok) \in {"workday", "workdays"}

\* the grammar's description with the date it found
Found(dt, desc) == IF dt.t = "date" THEN [dt EXCEPT !.desc = desc] ELSE dt

-----------------------------------------------------------------------------
(* The grammars of resolve, in the order of the chain.  Each returns None    *)
(* when it does not match, a datetime when it does, Raise when it throws.    *)

\* lines 107-109: the assignment under the if leaves days_to_sunday as it is
DaysToSunday(e, today) ==
    LET days_to_sunday == 6 - Weekday(today)
    IN  IF days_to_sunday = 0 /\ e # Lit(<<"this", "weekend">>)
        THEN 0
        ELSE days_to_sunday

\* lines 86-128: the fixed words and the period boundaries
FixedWords(e, today) ==
    IF e \in {Lit(<<"today">>), Lit(<<"now">>)}
    THEN Found(today, "today")
    ELSE IF e = Lit(<<"tomorrow">>)
    THEN Found(AddDays(today, 1), "tomorrow")
    ELSE IF e = Lit(<<"yesterday">>)
    THEN Found(AddDays(today, -1), "yesterday")
    ELSE IF e = Lit(<<"day", "after", "tomorrow">>)
    THEN Found(AddDays(today, 2), "day after tomorrow")
    ELSE IF e = Lit(<<"day", "before", "yesterday">>)
    THEN Found(AddDays(today, -2), "day before yesterday")
    ELSE IF e \in {Lit(<<"end", "of", "week">>), Lit(<<"end", "of", "this", "week">>),
                   Lit(<<"this", "weekend">>)}
    THEN Found(AddDays(today, DaysToSunday(e, today)), "end of this week (Sunday)")
    ELSE IF e \in {Lit(<<"start", "of", "next", "week">>),
                   Lit(<<"beginning", "of", "next", "week">>), Lit(<<"next", "week">>)}
    THEN Found(AddDays(today, 7 - Weekday(today)), "start of next week (Monday)")
    ELSE IF e \in {Lit(<<"end", "of", "month">>), Lit(<<"end", "of", "this", "month">>),
                   Lit(<<"eom">>)}
    THEN Found(MkDate(today.y, today.m, DaysInMonth(today.y, today.m)), "end of this month")
    ELSE IF e \in {Lit(<<"start", "of", "next", "month">>),
                   Lit(<<"beginning", "of", "next", "month">>)}
    THEN Found(AddMonths(MkDate(today.y, today.m, 1), 1), "start of next month")
    ELSE IF e \in {Lit(<<"end", "of", "year">>), Lit(<<"end", "of", "this", "year">>),
                   Lit(<<"eoy">>)}
    THEN Found(MkDate(today.y, 12, 31), "end of this year")
    ELSE IF e \in {Lit(<<"start", "of", "next", "year">>),
                   Lit(<<"beginning", "of", "next", "year">>)}
    THEN Found(MkDate(today.y + 1, 1, 1), "start of next year")
    ELSE None

\* lines 132-156: (next|this|last|previous)\s+(\w+), matched at the start
ModifierGrammar(e, today) ==
    IF Len(e) >= 2 /\ Word(e[1]) \in {"next", "this", "last", "previous"}
    THEN LET modifier == Word(e[1])
             day_name == Word(e[2])
         IN  IF day_name \in DOMAIN WEEKDAYS
             THEN IF modifier \in {"next", "this"}
                  THEN Found(NextWeekday(WEEKDAYS[day_name], today, 0), "next <weekday>")
                  ELSE Found(PrevWeekday(WEEKDAYS[day_name], today, 0), "last <weekday>")
             ELSE IF day_name = "week"
             THEN IF modifier = "next"
                  THEN Found(AddDays(today, 7 - Weekday(today)), "start of next week")
                  ELSE IF modifier \in {"last", "previous"}
                  THEN Found(AddDays(today, 0 - (Weekday(today) + 7)), "start of last week")
                  ELSE None
             ELSE IF day_name = "month"
             THEN IF modifier = "next"
                  THEN Found(AddMonths(MkDate(today.y, today.m, 1), 1), "start of next month")
                  ELSE IF modifier \in {"last", "previous"}
                  THEN Found(AddMonths(MkDate(today.y, today.m, 1), -1), "start of last month")
                  ELSE None
             ELSE None
    ELSE None

\* lines 160-178: (\d+)\s+(\w+?)s?\s+from\s+(?:now|today), matched at the start
FromNowGrammar(e, today) ==
    IF /\ Len(e) >= 4
       /\ IsCount(e[1])
       /\ e[3] = W("from")
       /\ IsNowOrToday(e[4])
    THEN LET count == IntOf(e[1].n)
             unit  == Unit(e[2])
         IN  IF unit \in DOMAIN WEEKDAYS
             THEN Found(NextWeekday(WEEKDAYS[unit], today, count - 1), "N <weekday>(s) from now")
             ELSE IF unit = "day"
             THEN Found(AddDays(today, count), "N day(s) from now")
             ELSE IF unit = "week"
             THEN Found(AddDays(today, 7 * count), "N week(s) from now")
             ELSE IF unit = "month"
             THEN Found(AddMonths(today, count), "N month(s) from now")
             ELSE IF unit = "year"
             THEN Found(MkDate(today.y + count, today.m, today.d), "N year(s) from now")
             ELSE None
    ELSE None

RECURSIVE BusinessLoop(_, _, _)
\* lines 187-190: while added < count: d += 1 day; count d if it is Monday-Friday
BusinessLoop(d, added, count) ==
    IF added < count /\ d.t = "date"
    THEN LET next == AddDays(d, 1)
         IN  BusinessLoop(next, IF next.t = "date" /\ Weekday(next) < 5
                                THEN added + 1 ELSE added, count)
    ELSE d

\* the guard of lines 182-183:
\* in\s+(\d+)\s+(?:business\s+days?|workdays?|work\s+days?), matched at the start
BusinessMatches(e) ==
    /\ Len(e) >= 3
    /\ e[1] = W("in")
    /\ IsCount(e[2])
    /\ \/ IsWorkdays(e[3])
       \/ /\ Len(e) >= 4
          /\ Word(e[3]) \in {"business", "work"}
          /\ IsDays(e[4])

\* a wrong chain: the business-day grammar never matches, as when it is tried
\* after the generic 'in N units' grammar
BusinessGrammarSkipped(e, today) == None

\* lines 181-192
BusinessGrammar(e, today) ==
    IF BusinessMatches(e)
    THEN Found(BusinessLoop(today, 0, IntOf(e[2].n)), "in N business day(s)")
    ELSE None

\* lines 196-211: in\s+(\d+)\s+(\w+?)s?$
InGrammar(e, today) ==
    IF Len(e) = 3 /\ e[1] = W("in") /\ IsCount(e[2])
    THEN LET count == IntOf(e[2].n)
             unit  == Unit(e[3])
         IN  IF unit = "day"
             THEN Found(AddDays(today, count), "in N day(s)")
             ELSE IF unit = "week"
             THEN Found(AddDays(today, 7 * count), "in N week(s)")
             ELSE IF unit = "month"
             THEN Found(AddMonths(today, count), "in N month(s)")
             ELSE IF unit = "year"
             THEN Found(MkDate(today.y + count, today.m, today.d), "in N year(s)")
             ELSE None
    ELSE None

\* lines 215-230: (\d+)\s+(\w+?)s?\s+ago, matched at the start
AgoGrammar(e, today) ==
    IF Len(e) >= 3 /\ IsCount(e[1]) /\ IsAgo(e[3])
    THEN LET count == IntOf(e[1].n)
             unit  == Unit(e[2])
         IN  IF unit = "day"
             THEN Found(AddDays(today, 0 - count), "N day(s) ago")
             ELSE IF unit = "week"
             THEN Found(AddDays(today, 0 - 7 * count), "N week(s) ago")
             ELSE IF unit = "month"
             THEN Found(AddMonths(today, 0 - count), "N month(s) ago")
             ELSE IF unit = "year"
             THEN Found(MkDate(today.y - count, today.m, today.d), "N year(s) ago")
             ELSE None
    ELSE None

\* lines 234-245: an?\s+(\w+)\s+from\s+(?:now|today), matched at the start
AUnitGrammar(e, today) ==
    IF /\ Len(e) >= 4
       /\ Word(e[1]) \in {"a", "an"}
       /\ e[3] = W("from")
       /\ IsNowOrToday(e[4])
    THEN LET unit == Word(e[2])
         IN  IF unit = "week"
             THEN Found(AddDays(today, 7), "a week from now")
             ELSE IF unit = "month"
             THEN Found(AddMonths(today, 1), "a month from now")
             ELSE IF unit = "year"
             THEN Found(MkDate(today.y + 1, today.m, today.d), "a year from now")
             ELSE None
    ELSE None

RECURSIVE WeekendLoop(_)
\* lines 251-252: while d.weekday() >= 5: d += 1 day
WeekendLoop(d) == IF d.t = "date" /\ Weekday(d) >= 5 THEN WeekendLoop(AddDays(d, 1)) ELSE d

\* lines 249-254
NextBusinessDayGrammar(e, today) ==
    IF e \in {Lit(<<"next", "weekday">>), Lit(<<"next", "business", "day">>),
              Lit(<<"next", "workday">>)}
    THEN Found(WeekendLoop(AddDays(today, 1)), "next business day")
    ELSE None

\* lines 258-260
BareWeekdayGrammar(e, today) ==
    IF Len(e) = 1 /\ Word(e[1]) \in DOMAIN WEEKDAYS
    THEN Found(NextWeekday(WEEKDAYS[Word(e[1])], today, 0), "next <weekday>")
    ELSE None


\* candidate.date() < today.date()
DateBefore(a, b) ==
    \/ a.y < b.y
    \/ a.y = b.y /\ a.m < b.m
    \/ a.y = b.y /\ a.m = b.m /\ a.d < b.d

\* a wrong roll-over: a candidate equal to today is rolled to next year as well
CandidateRollsToday(given, year, month, day, today) ==
    LET candidate == MkDate(year, month, day)
    IN  IF candidate.t = "raise"
        THEN None
        ELSE IF ~given /\ ~DateBefore(today, candidate)
        THEN LET rolled == MkDate(year + 1, month, day)
             IN  IF rolled.t = "raise" THEN None ELSE rolled
        ELSE candidate

\* lines 269-277 and 285-292: the candidate date, rolled to next year when no year
\* is given and it is past; a ValueError of datetime is caught and nothing is parsed
Candidate(given, year, month, day, today) ==
    LET candidate == MkDate(year, month, day)
    IN  IF candidate.t = "raise"
        THEN None
        ELSE IF ~given /\ DateBefore(candidate, today)
        THEN LET rolled == MkDate(year + 1, month, day)
             IN  IF rolled.t = "raise" THEN None ELSE rolled
        ELSE candidate

\* (\d{1,2})(?:st|nd|rd|th)? as a whole token
IsDayToken(tok) ==
    /\ Len(tok.n) \in 1..2 /\ IsDigits(tok.n)
    /\ tok.s \in {"", "st", "nd", "rd", "th"}

\* (\d{4}) as a whole token
IsYearToken(tok) == tok.s = "" /\ Len(tok.n) = 4 /\ IsDigits(tok.n)

\* (\d{1,2}) and (\d{4}) in one token: \s*,?\s* matches the empty string
IsDayYearToken(tok) == tok.s = "" /\ Len(tok.n) \in 5..6 /\ IsDigits(tok.n)

\* lines 264-277: (\w+)\s+(\d{1,2})(?:st|nd|rd|th)?(?:\s*,?\s*(\d{4}))?$
MonthDayGrammar(e, today) ==
    IF Len(e) \in 2..3 /\ Word(e[1]) \in DOMAIN MONTH_NAMES
    THEN LET month == MONTH_NAMES[Word(e[1])]
         IN  IF Len(e) = 2 /\ IsDayToken(e[2])
             THEN Found(Candidate(FALSE, today.y, month, IntOf(e[2].n), today),
                        "<Month> <day>, <year>")
             ELSE IF Len(e) = 3 /\ IsDayToken(e[2]) /\ IsYearToken(e[3])
             THEN Found(Candidate(TRUE, IntOf(e[3].n), month, IntOf(e[2].n), today),
                        "<Month> <day>, <year>")
             ELSE IF Len(e) = 2 /\ IsDayYearToken(e[2])
             THEN LET k == Len(e[2].n) - 4
                  IN  Found(Candidate(TRUE, IntOf(SubSeq(e[2].n, k + 1, k + 4)), month,
                                      IntOf(SubSeq(e[2].n, 1, k)), today),
                            "<Month> <day>, <year>")
             ELSE None
    ELSE None

\* lines 280-292: (\d{1,2})(?:st|nd|rd|th)?\s+(?:of\s+)?(\w+)(?:\s*,?\s*(\d{4}))?$
DayMonthGrammar(e, today) ==
    IF Len(e) \in 2..4 /\ IsDayToken(e[1])
    THEN LET of    == IF Len(e) >= 3 /\ e[2] = W("of") THEN 1 ELSE 0
             name  == Word(e[2 + of])
             given == Len(e) = 3 + of
         IN  IF /\ Len(e) \in {2 + of, 3 + of}
                /\ name \in DOMAIN MONTH_NAMES
                /\ given => IsYearToken(e[3 + of])
             THEN Found(Candidate(given, IF given THEN IntOf(e[3 + of].n) ELSE today.y,
                                  MONTH_NAMES[name], IntOf(e[1].n), today),
                        "<Month> <day>, <year>")
             ELSE None
    ELSE None

\* (\d{4})-(\d{2})-(\d{2})$ on the token's characters
IsIsoShape(n) ==
    /\ Len(n) = 10
    /\ n[5] = Dash /\ n[8] = Dash
    /\ \A i \in {1, 2, 3, 4, 6, 7, 9, 10} : n[i] \in 0..9

\* a wrong passthrough: the groups for month and day are swapped
IsoGrammarSwapped(e, today) ==
    IF Len(e) = 1 /\ e[1].s = "" /\ IsIsoShape(e[1].n)
    THEN LET parsed == MkDate(IntOf(SubSeq(e[1].n, 1, 4)), IntOf(SubSeq(e[1].n, 9, 10)),
                              IntOf(SubSeq(e[1].n, 6, 7)))
         IN  IF parsed.t = "raise" THEN None ELSE Found(parsed, "ISO date")
    ELSE None

\* lines 296-302: a ValueError of datetime is caught and nothing is parsed
IsoGrammar(e, today) ==
    IF Len(e) = 1 /\ e[1].s = "" /\ IsIsoShape(e[1].n)
    THEN LET parsed == MkDate(IntOf(SubSeq(e[1].n, 1, 4)), IntOf(SubSeq(e[1].n, 6, 7)),
                              IntOf(SubSeq(e[1].n, 9, 10)))
         IN  IF parsed.t = "raise" THEN None ELSE Found(parsed, "ISO date")
    ELSE None

-----------------------------------------------------------------------------
(* The result builder *)

\* date.isoformat(): "%04d-%02d-%02d", as the characters of one token
IsoFormat(dt) ==
    [n |-> Digits(dt.y, 4) \o <<Dash>> \o Digits(dt.m, 2) \o <<Dash>> \o Digits(dt.d, 2),
     s |-> ""]

\* a wrong offset: the operands of the subtraction are swapped
DaysFromTodaySwapped(result_date, today) == ToOrdinal(today) - ToOrdinal(result_date)

\* (result_date - today.date()).days
DaysFromToday(result_date, today) == ToOrdinal(result_date) - ToOrdinal(today)

\* lines 321-322: one of "at ", " am", " pm", "noon", "midnight", "o'clock" is in
\* expression.lower(): a token ending in "at" with whitespace after it, a token
\* after whitespace that starts with "am" or "pm", a token holding one of the rest
HasTimeKeyword(e) ==
    \/ \E i \in 1..(Len(e) - 1) : e[i].s \in {"at", "sat"}
    \/ \E i \in 2..Len(e) : e[i].n = <<>> /\ e[i].s \in {"am", "pm"}
    \/ \E i \in 1..Len(e) : e[i].s \in {"noon", "afternoon", "midnight", "o'clock"}

\* lines 305-325
BuildResult(parsed, expr, today, has_time_suffix) ==
    IF parsed.t = "raise"
    THEN [kind |-> "raised"]
    ELSE IF parsed.t = "none"
    THEN [kind |-> "error", expression |-> expr]
    ELSE [kind            |-> "ok",
          date            |-> IsoFormat(parsed),
          day_of_week     |-> DayName(Weekday(parsed)),
          expression      |-> expr,
          description     |-> parsed.desc,
          days_from_today |-> DaysFromToday(parsed, today),
          warning         |-> has_time_suffix \/ HasTimeKeyword(Lower(expr))]

\* ref.replace(hour=0, minute=0, second=0, microsecond=0)
Today(r) == [t |-> "date", y |-> r.y, m |-> r.m, d |-> r.d, desc |-> ""]

\* the grammars in the order in which resolve tries them
Grammar(k, e, today) ==
    CASE k = 1  -> FixedWords(e, today)
      [] k = 2  -> ModifierGrammar(e, today)
      [] k = 3  -> FromNowGrammar(e, today)
      [] k = 4  -> BusinessGrammar(e, today)
      [] k = 5  -> InGrammar(e, today)
      [] k = 6  -> AgoGrammar(e, today)
      [] k = 7  -> AUnitGrammar(e, today)
      [] k = 8  -> NextBusinessDayGrammar(e, today)
      [] k = 9  -> BareWeekdayGrammar(e, today)
      [] k = 10 -> MonthDayGrammar(e, today)
      [] k = 11 -> DayMonthGrammar(e, today)
      [] k = 12 -> IsoGrammar(e, today)
      [] OTHER  -> None

RECURSIVE ChainFrom(_, _, _)
\* lines 82-302: grammar k is tried only while nothing is parsed ("elif" and
\* "if parsed is None"); an exception leaves the function at once
ChainFrom(k, e, today) ==
    IF k > 12
    THEN None
    ELSE LET parsed == Grammar(k, e, today)
         IN  IF parsed = None THEN ChainFrom(k + 1, e, today) ELSE parsed

Chain(e, today) == ChainFrom(1, e, today)

\* resolve(expression, ref)
Resolve(expr, r) ==
    LET today == Today(r)
        lower == Lower(expr)
    IN  BuildResult(Chain(StripTimeSuffix(lower), today), expr, today, HasTimeSuffix(lower))

-----------------------------------------------------------------------------
(* The inputs: reference instants and expressions *)

RefFirst == MkDate(2023, 12, 20)

RefHours == {0, 13}

\* the reference instants: every day from RefFirst on, across the end of 2023
\* and 2024-02-29, at midnight and in the afternoon
RefInstants ==
    {[y |-> dt.y, m |-> dt.m, d |-> dt.d, hh |-> h] :
        dt \in {AddDays(RefFirst, i) : i \in 0..RefSpan}, h \in RefHours}

Counts == {Num(c) : c \in 0..MaxCount}

FixedExpressions ==
    {Lit(<<"today">>), Lit(<<"now">>), Lit(<<"tomorrow">>), Lit(<<"yesterday">>),
     Lit(<<"day", "after", "tomorrow">>), Lit(<<"day", "before", "yesterday">>),
     Lit(<<"end", "of", "week">>), Lit(<<"end", "of", "this", "week">>),
     Lit(<<"this", "weekend">>), Lit(<<"start", "of", "next", "week">>),
     Lit(<<"beginning", "of", "next", "week">>), Lit(<<"next", "week">>),
     Lit(<<"end", "of", "month">>), Lit(<<"end", "of", "this", "month">>), Lit(<<"eom">>),
     Lit(<<"start", "of", "next", "month">>), Lit(<<"beginning", "of", "next", "month">>),
     Lit(<<"end", "of", "year">>), Lit(<<"end", "of", "this", "year">>), Lit(<<"eoy">>),
     Lit(<<"start", "of", "next", "year">>), Lit(<<"beginning", "of", "next", "year">>),
     Lit(<<"next", "weekday">>), Lit(<<"next", "business", "day">>),
     Lit(<<"next", "workday">>),
     Lit(<<"Tomorrow">>), Lit(<<"EOM">>), Lit(<<"not", "a", "date">>), Lit(<<"noon">>),
     Lit(<<"morning">>), Lit(<<"tomorrow", "noon">>)}

ModifierExpressions ==
    {Lit(<<mo, x>>) : mo \in {"next", "this", "last", "previous"},
                      x \in DOMAIN WEEKDAYS \cup {"week", "month", "year", "Monday"}}

FromNowUnits ==
    {"monday", "tuesday", "wednesday", "thursday", "friday", "saturday", "sunday",
     "mondays", "tuesdays", "wednesdays", "thursdays", "fridays", "saturdays", "sundays",
     "tues", "thurs", "fri", "fris", "sat",
     "day", "days", "week", "weeks", "month", "months", "year", "years", "hours"}

FromNowExpressions ==
    {<<c, W(u), W("from"), W("now")>> : c \in Counts, u \in FromNowUnits}
    \cup {<<c, W(u), W("from"), W("today")>> : c \in Counts, u \in {"fridays", "days", "year"}}

BusinessExpressions ==
    {<<W("in"), Num(c)>> \o Lit(tail) :
        c \in 0..MaxBusiness,
        tail \in {<<"business", "days">>, <<"business", "day">>, <<"workdays">>,
                  <<"workday">>, <<"work", "days">>, <<"business", "weeks">>}}

InExpressions ==
    {<<W("in"), c, W(u)>> :
        c \in Counts,
        u \in {"day", "days", "week", "weeks", "month", "months", "year", "years",
               "fortnights", "business"}}

AgoExpressions ==
    {<<c, W(u), W("ago")>> :
        c \in Counts,
        u \in {"day", "days", "week", "weeks", "month", "months", "year", "years",
               "hours"}}

AUnitExpressions ==
    {<<W(a), W(u), W("from"), W("now")>> :
        a \in {"a", "an"}, u \in {"week", "month", "year", "day"}}

BareExpressions == {<<W(x)>> : x \in DOMAIN WEEKDAYS \cup {"Friday", "march"}}

DayTokens ==
    {Num(d) : d \in {0, 1, 15, 28, 29, 30, 31, 32}}
    \cup {[n |-> <<1>>, s |-> "st"], [n |-> <<1, 5>>, s |-> "th"],
          [n |-> <<0, 1>>, s |-> ""], [n |-> <<1, 1, 5>>, s |-> ""]}

YearTokens == {[n |-> Digits(y, 4), s |-> ""] : y \in {0, 2023, 2024, 2025}}

MonthDayExpressions ==
    {<<W(mn), Num(d)>> : mn \in DOMAIN MONTH_NAMES, d \in {1, 29, 31}}
    \cup {<<W(mn), dt>> : mn \in {"jan", "feb", "March", "dec", "monday"}, dt \in DayTokens}
    \cup {<<dt, W(mn)>> : mn \in {"jan", "feb", "march", "dec", "of"}, dt \in DayTokens}
    \cup {<<dt, W("of"), W(mn)>> : mn \in {"january", "feb", "mar", "december"},
                                   dt \in DayTokens}
    \cup {<<W(mn), dt, yt>> : mn \in {"feb", "dec"}, dt \in {Num(1), Num(29)},
                              yt \in YearTokens}
    \cup {<<dt, W(mn), yt>> : mn \in {"feb"}, dt \in {Num(29)}, yt \in YearTokens}
    \cup {<<dt, W("of"), W(mn), yt>> : mn \in {"feb"}, dt \in {Num(29)}, yt \in YearTokens}
    \cup {<<W("feb"), [n |-> <<2, 9, 2, 0, 2, 4>>, s |-> ""]>>,
          <<W("feb"), [n |-> <<1, 2, 0, 2, 3>>, s |-> ""]>>,
          <<W("feb"), [n |-> <<2, 0, 2, 4>>, s |-> ""]>>,
          <<Num(29), W("of"), [n |-> <<2, 0, 2, 4>>, s |-> ""]>>}

\* "YYYY-MM-DD" written with two-digit months and days, valid or not, and strings
\* of other shapes
IsoExpressions ==
    {<<[n |-> Digits(y, 4) \o <<Dash>> \o Digits(m, 2) \o <<Dash>> \o Digits(d, 2),
        s |-> ""]>> :
        y \in {0, 2023, 2024}, m \in 0..13, d \in {0, 1, 15, 28, 29, 30, 31, 32}}
    \cup {<<[n |-> <<2, 0, 2, 4, Dash, 3, Dash, 1, 5>>, s |-> ""]>>,
          <<[n |-> <<2, 0, 2, 4, Dash, 0, 3, Dash, 1, 5>>, s |-> "th"]>>,
          <<[n |-> <<2, 0, 2, 4, 0, 3, 1, 5>>, s |-> ""]>>,
          <<[n |-> <<2, 4, Dash, 0, 3, Dash, 1, 5>>, s |-> ""]>>,
          <<[n |-> <<2, 0, 2, 4, Colon, 0, 3, Colon, 1, 5>>, s |-> ""]>>}

\* the clauses time_suffixes recognizes, and some it does not
TimeClauses ==
    {<<W("at"), [n |-> <<5>>, s |-> ""]>>, <<W("at"), [n |-> <<5>>, s |-> "pm"]>>,
     <<W("at"), [n |-> <<5>>, s |-> ""], W("pm")>>, <<W("AT"), [n |-> <<5>>, s |-> ""], W("PM")>>,
     <<W("at"), [n |-> <<1, 2, Colon, 3, 0>>, s |-> "am"]>>,
     <<W("at"), [n |-> <<9, Colon, 0, 0>>, s |-> ""]>>,
     Lit(<<"in", "the", "morning">>), Lit(<<"in", "the", "afternoon">>),
     Lit(<<"in", "the", "evening">>),
     Lit(<<"morning">>), Lit(<<"afternoon">>), Lit(<<"evening">>), Lit(<<"night">>)}

OtherClauses ==
    {<<W("at"), [n |-> <<1, 2, 3>>, s |-> ""]>>, Lit(<<"at", "noon">>),
     Lit(<<"in", "the", "night">>), Lit(<<"in", "the">>)}

ClauseBases ==
    {Lit(<<"tomorrow">>), Lit(<<"today">>), Lit(<<"next", "monday">>), Lit(<<"sat">>),
     Lit(<<"eom">>), Lit(<<"not", "a", "date">>), Lit(<<"next", "monday", "in", "the">>),
     <<W("in"), Num(3), W("days")>>, <<W("in"), Num(2), W("business"), W("days")>>,
     <<Num(2), W("fridays"), W("from"), W("now")>>, <<Num(1), W("week"), W("ago")>>,
     <<W("march"), Num(15)>>, <<Num(15), W("of"), W("march")>>,
     <<[n |-> <<2, 0, 2, 4, Dash, 0, 3, Dash, 1, 5>>, s |-> ""]>>}

ClauseExpressions ==
    {b \o c : b \in ClauseBases, c \in TimeClauses \cup OtherClauses}
    \cup {b \o c1 \o c2 :
            b \in {Lit(<<"tomorrow">>), Lit(<<"next", "monday">>), <<W("march"), Num(15)>>},
            c1 \in {<<W("at"), [n |-> <<5>>, s |-> "pm"]>>, Lit(<<"in", "the", "morning">>),
                    Lit(<<"morning">>)},
            c2 \in {<<W("at"), [n |-> <<5>>, s |-> ""]>>, Lit(<<"in", "the", "evening">>),
                    Lit(<<"night">>)}}

Expressions ==
    FixedExpressions \cup ModifierExpressions \cup FromNowExpressions
    \cup BusinessExpressions \cup InExpressions \cup AgoExpressions
    \cup AUnitExpressions \cup BareExpressions \cup MonthDayExpressions
    \cup IsoExpressions \cup ClauseExpressions

-----------------------------------------------------------------------------
(* The program: main() resolves the expression of the command line; the    *)
(* date it prints is an expression in its turn.                            *)

Init ==
    /\ ref \in RefInstants
    /\ expression = <<>>
    /\ result = [kind |-> "none"]
    /\ pc = "start"

\* lines 430-432: result = resolve(args.expression)
CallResolve ==
    /\ pc = "start"
    /\ \E e \in Expressions :
          /\ expression' = e
          /\ result' = Resolve(e, ref)
    /\ pc' = "done"
    /\ UNCHANGED ref

\* resolve on the "date" field of a result, against the same reference
ResolveDate ==
    /\ pc = "done"
    /\ result.kind = "ok"
    /\ expression' = <<result.date>>
    /\ result' = Resolve(<<result.date>>, ref)
    /\ pc' = "again"
    /\ UNCHANGED ref

Next == CallResolve \/ ResolveDate

Spec == Init /\ [][Next]_vars

-----------------------------------------------------------------------------
(* _add_months on its own, over every date of two years and every count *)

AddInstants ==
    {[y |-> y, m |-> m, d |-> d, hh |-> 0] :
        y \in 2023..(2023 + AddYears), m \in 1..12, d \in 1..31}

InitAdd ==
    /\ ref \in {r \in AddInstants : ValidDate(r.y, r.m, r.d)}
    /\ expression = <<>>
    /\ result = [kind |-> "none"]
    /\ pc = "start"

\* lines 57-63, with the months of lines 121, 152, 155, 174, 207, 226 and 241
CallAddMonths ==
    /\ pc = "start"
    /\ \E n \in (0 - MaxMonths)..MaxMonths :
          result' = [kind |-> "added", months |-> n, value |-> AddMonths(Today(ref), n)]
    /\ pc' = "added"
    /\ UNCHANGED <<ref, expression>>

NextAdd == CallAddMonths

SpecAddMonths == InitAdd /\ [][NextAdd]_vars

-----------------------------------------------------------------------------
(* The properties *)

RefDate == Today(ref)

\* the calendar date a "YYYY-MM-DD" token names
DateOfToken(tok) ==
    MkDate(IntOf(SubSeq(tok.n, 1, 4)), IntOf(SubSeq(tok.n, 6, 7)), IntOf(SubSeq(tok.n, 9, 10)))

Resolved == pc \in {"done", "again"}

\* C1: resolve returns a result or the unrecognized-expression error value, which
\* names the expression as given, and never throws, the year grammars on a
\* Feb 29 reference included
C1_NeverThrows ==
    Resolved =>
        /\ result.kind \in {"ok", "error"}
        /\ result.kind = "error" => result.expression = expression

\* C2: from a Sunday 'end of week' and 'end of this week' resolve to the reference
\* date and 'this weekend' to the Sunday 7 days later; from any other day all three
\* resolve to the Sunday 6 - weekday(ref) days ahead
C2_EndOfWeek ==
    /\ pc = "done"
    /\ expression \in {Lit(<<"end", "of", "week">>), Lit(<<"end", "of", "this", "week">>),
                       Lit(<<"this", "weekend">>)}
    => /\ result.kind = "ok"
       /\ result.days_from_today =
             IF Weekday(RefDate) = 6
             THEN (IF expression = Lit(<<"this", "weekend">>) THEN 7 ELSE 0)
             ELSE 6 - Weekday(RefDate)

\* 'next W', 'this W' or the bare name 'W'
IsNextWeekdayForm(e) ==
    \/ Len(e) = 1 /\ Word(e[1]) \in DOMAIN WEEKDAYS
    \/ Len(e) = 2 /\ Word(e[1]) \in {"next", "this"} /\ Word(e[2]) \in DOMAIN WEEKDAYS

\* C3: 'next W', 'this W' and 'W' resolve to D + ((W - weekday(D) - 1) mod 7 + 1)
\* days: strictly after D, at most 7 days later, on weekday W, also when D is a W
C3_NextWeekday ==
    LET e == Lower(expression)
    IN  pc = "done" /\ IsNextWeekdayForm(e) =>
           LET w      == WEEKDAYS[Word(e[Len(e)])]
               offset == ((w - Weekday(RefDate) - 1) % 7) + 1
           IN  /\ result.kind = "ok"
               /\ result.days_from_today = offset
               /\ offset \in 1..7
               /\ DateOfToken(result.date) = AddDays(RefDate, offset)
               /\ Weekday(DateOfToken(result.date)) = w
               /\ result.day_of_week = DayName(w)

C3_Witness ==
    /\ pc = "done"
    /\ expression = Lit(<<"next", "monday">>)
    /\ Weekday(RefDate) = 0
    /\ result.kind = "ok"
    /\ result.days_from_today = 7

\* 'N Ws from now' with N >= 1
IsCountedWeekdayForm(e) ==
    /\ Len(e) = 4
    /\ IsCount(e[1]) /\ IntOf(e[1].n) >= 1
    /\ Unit(e[2]) \in DOMAIN WEEKDAYS
    /\ e[3] = W("from")
    /\ IsNowOrToday(e[4])

\* C4: 'N Ws from now', N >= 1, is the N-th date strictly after D on weekday W:
\* the 'next W' date plus 7 * (N - 1) days, strictly later for a larger N
C4_CountedWeekday ==
    pc = "done" /\ IsCountedWeekdayForm(expression) =>
       LET count == IntOf(expression[1].n)
           w     == WEEKDAYS[Unit(expression[2])]
           next  == Resolve(<<W("next"), W(Unit(expression[2]))>>, ref)
           fewer == Resolve(<<Num(count - 1)>> \o Tail(expression), ref)
       IN  /\ result.kind = "ok"
           /\ result.days_from_today = ((w - Weekday(RefDate) - 1) % 7) + 1 + 7 * (count - 1)
           /\ next.kind = "ok"
           /\ result.days_from_today = next.days_from_today + 7 * (count - 1)
           /\ Weekday(DateOfToken(result.date)) = w
           /\ count > 1 =>
                 /\ fewer.kind = "ok"
                 /\ fewer.days_from_today + 7 = result.days_from_today

C4_Witness ==
    /\ pc = "done"
    /\ expression = <<Num(2), W("fridays"), W("from"), W("now")>>
    /\ Weekday(RefDate) = 4
    /\ result.kind = "ok"
    /\ result.days_from_today = 14

\* the Monday-Friday days among D + 1, ..., D + n
BusinessDaysWithin(n) == {k \in 1..n : Weekday(AddDays(RefDate, k)) < 5}

\* C5: 'in N business days' (or workdays), N >= 1, is resolved by the business-day
\* grammar: the result is after D, on Monday-Friday, with exactly N Monday-Friday
\* days in (D, result]; from a Friday, N = 5 is the Friday after
C5_BusinessDays ==
    /\ pc = "done"
    /\ expression \in BusinessExpressions
    /\ BusinessMatches(expression)
    /\ IntOf(expression[2].n) >= 1
    => /\ result.kind = "ok"
       /\ result.description = "in N business day(s)"
       /\ result.days_from_today >= 1
       /\ Weekday(DateOfToken(result.date)) < 5
       /\ Cardinality(BusinessDaysWithin(result.days_from_today)) = IntOf(expression[2].n)
       /\ Weekday(RefDate) = 4 /\ IntOf(expression[2].n) = 5 => result.days_from_today = 7

C5_Witness ==
    /\ pc = "done"
    /\ expression = <<W("in"), Num(5), W("business"), W("days")>>
    /\ Weekday(RefDate) = 4
    /\ result.kind = "ok"
    /\ result.days_from_today = 7

\* the month and day of '<month> <day>', '<day> <month>' and '<day> of <month>'
\* written without a year; <<0, 0>> for any other expression
MonthDayOf(e) ==
    IF Len(e) = 2 /\ Word(e[1]) \in DOMAIN MONTH_NAMES /\ IsDayToken(e[2])
    THEN <<MONTH_NAMES[Word(e[1])], IntOf(e[2].n)>>
    ELSE IF Len(e) = 2 /\ IsDayToken(e[1]) /\ Word(e[2]) \in DOMAIN MONTH_NAMES
    THEN <<MONTH_NAMES[Word(e[2])], IntOf(e[1].n)>>
    ELSE IF /\ Len(e) = 3 /\ IsDayToken(e[1]) /\ e[2] = W("of")
            /\ Word(e[3]) \in DOMAIN MONTH_NAMES
    THEN <<MONTH_NAMES[Word(e[3])], IntOf(e[1].n)>>
    ELSE <<0, 0>>

\* C6: a month and day without a year resolve to that day of R's year when it is
\* on or after R (R itself is kept), and to that day of the year after when it is
\* past; a date that is returned is never before R and at most 365 days after it
C6_MonthDay ==
    LET md    == MonthDayOf(Lower(expression))
        month == md[1]
        day   == md[2]
        year  == RefDate.y
        past  == DateBefore(MkDate(year, month, day), RefDate)
    IN  pc = "done" /\ month # 0 =>
           /\ ValidDate(year, month, day) /\ ~past =>
                 /\ result.kind = "ok"
                 /\ result.date = IsoFormat(MkDate(year, month, day))
           /\ ValidDate(year, month, day) /\ past /\ ValidDate(year + 1, month, day) =>
                 /\ result.kind = "ok"
                 /\ result.date = IsoFormat(MkDate(year + 1, month, day))
           /\ result.kind = "ok" =>
                 /\ DateOfToken(result.date).m = month
                 /\ DateOfToken(result.date).d = day
                 /\ DateOfToken(result.date).y \in {year, year + 1}
                 /\ result.days_from_today \in 0..365
           /\ result.kind # "raised"

C6_Witness ==
    /\ pc = "done"
    /\ expression = <<W("jan"), Num(15)>>
    /\ RefDate = MkDate(2024, 1, 16)
    /\ result.kind = "ok"
    /\ result.date = IsoFormat(MkDate(2025, 1, 15))
    /\ result.days_from_today = 365

\* C7: _add_months((y, m, d), N) is the month of index 12 * y + m - 1 + N, split
\* into year and month, on day min(d, days in that month), for N of either sign
C7_AddMonths ==
    pc = "added" =>
       LET dt    == RefDate
           value == result.value
           last  == DaysInMonth(value.y, value.m)
       IN  /\ value.t = "date"
           /\ value.m \in 1..12
           /\ 12 * value.y + value.m - 1 = 12 * dt.y + dt.m - 1 + result.months
           /\ value.d = IF dt.d <= last THEN dt.d ELSE last
           /\ dt.m = 1 /\ dt.d = 31 /\ result.months = 1 =>
                 value = MkDate(dt.y, 2, IF IsLeap(dt.y) THEN 29 ELSE 28)
           /\ dt.m = 1 /\ result.months = -1 => value = MkDate(dt.y - 1, 12, dt.d)

C7_Witness ==
    /\ pc = "added"
    /\ RefDate = MkDate(2024, 1, 31)
    /\ result.months = 1
    /\ result.value = MkDate(2024, 2, 29)

\* C8: a result's days_from_today is its date minus the reference instant's
\* calendar date, in whole days, and its day_of_week is the weekday of its date
C8_DaysFromToday ==
    Resolved /\ result.kind = "ok" =>
       /\ DateOfToken(result.date).t = "date"
       /\ AddDays(RefDate, result.days_from_today) = DateOfToken(result.date)
       /\ result.days_from_today = ToOrdinal(DateOfToken(result.date)) - ToOrdinal(RefDate)
       /\ result.day_of_week = DayName(Weekday(DateOfToken(result.date)))

C8_Witness ==
    /\ pc = "done"
    /\ ref.hh # 0
    /\ expression = <<Num(2), W("months"), W("ago")>>
    /\ result.kind = "ok"
    /\ result.days_from_today < -58

\* a string of the shape "YYYY-MM-DD"
IsIsoExpression(e) == Len(e) = 1 /\ e[1].s = "" /\ IsIsoShape(e[1].n)

\* C9: the "YYYY-MM-DD" string of a valid date resolves to that very string,
\* whatever the reference date, so a returned date resolves to itself; a string of
\* the shape that names no valid date gives the unrecognized-expression error
C9_IsoPassthrough ==
    /\ (pc = "done" /\ IsIsoExpression(expression)) =>
          LET dt == DateOfToken(expression[1])
          IN  IF dt.t = "date"
              THEN /\ result.kind = "ok"
                   /\ result.date = expression[1]
                   /\ DateOfToken(result.date) = dt
              ELSE /\ result.kind = "error"
                   /\ result.expression = expression
    /\ pc = "again" =>
          /\ result.kind = "ok"
          /\ result.date = expression[1]

C9_Witness ==
    /\ pc = "again"
    /\ result.kind = "ok"
    /\ result.date = expression[1]
    /\ expression[1] = IsoFormat(MkDate(2024, 2, 29))
    /\ result.days_from_today > 0

\* C10, as stated: with any recognized time-of-day clause S after any E that
\* resolves to a date, 'E S' resolves to the date of E and carries the warning
C10_AnyExpression ==
    pc = "done" =>
       \A k \in 1..(Len(expression) - 1) :
          LET E == SubSeq(expression, 1, k)
              S == SubSeq(expression, k + 1, Len(expression))
          IN  IsTimeClause(Lower(S)) /\ Resolve(E, ref).kind = "ok" =>
                 /\ result.kind = "ok"
                 /\ result.date = Resolve(E, ref).date
                 /\ result.warning

\* C10, amended: the same for every E that does not itself end in a time-of-day
\* clause
C10_TimeClause ==
    pc = "done" =>
       \A k \in 1..(Len(expression) - 1) :
          LET E == SubSeq(expression, 1, k)
              S == SubSeq(expression, k + 1, Len(expression))
          IN  /\ IsTimeClause(Lower(S))
              /\ ~HasTimeSuffix(Lower(E))
              /\ Resolve(E, ref).kind = "ok"
              => /\ result.kind = "ok"
                 /\ result.date = Resolve(E, ref).date
                 /\ result.warning

C10_Witness ==
    /\ pc = "done"
    /\ expression = Lit(<<"tomorrow", "in", "the", "morning">>)
    /\ result.kind = "ok"
    /\ result.date = Resolve(Lit(<<"tomorrow">>), ref).date
    /\ result.days_from_today = 1
    /\ result.warning

=============================================================================
